---- MODULE Spec2Model ----
(***************************************************************************)
(* fix_fileops_mocks.py: read pkg/common/fileops/mocks.go, apply three     *)
(* regular-expression substitutions in a fixed order, write the result     *)
(* back to the same path.                                                  *)
(*                                                                         *)
(* Documents are strings.  The regular expressions are data (a sequence    *)
(* of elements) interpreted by a backtracking matcher, the replacement     *)
(* templates are data interpreted by Expand, and re.sub is the leftmost,   *)
(* non-overlapping scan Sub.                                               *)
(*                                                                         *)
(* Line 22 of the file, `EOF < /dev/null`, is not Python: the interpreter  *)
(* rejects the file as stored with a SyntaxError before line 1 runs, so a  *)
(* run of the stored file executes no statement.  The statements of lines  *)
(* 1-21 run when the text is given to the interpreter without line 22.     *)
(* The variable `stored` says which of the two texts a behaviour runs.     *)
(* Text-mode newline translation is that of a POSIX platform.              *)
(***************************************************************************)
EXTENDS Integers, Sequences, FiniteSets, TLC

VARIABLES
    stored,     \* TRUE: the file as stored (lines 1-22) is run; FALSE: lines 1-21
    exists,     \* whether pkg/common/fileops/mocks.go exists
    disk,       \* its content on disk ("" when it does not exist)
    pc,         \* position of the script
    content,    \* the script's variable `content`
    hist,       \* values `content` has taken in this run, oldest first
    orig,       \* the disk content when this run started
    wlog,       \* arguments of the f.write calls of this run
    reads,      \* number of f.read calls of this run
    run,        \* number of this run of the script
    prev        \* the disk content when the previous run ended

vars == <<stored, exists, disk, pc, content, hist, orig, wlog, reads, run, prev>>

-----------------------------------------------------------------------------
(* Bounds *)

MaxPieces == 2

MaxRuns == 2

-----------------------------------------------------------------------------
(* Characters and strings *)

Ch(s, i) == SubSeq(s, i, i)

\* The characters \s matches in a str pattern, up to U+00FF: tab, line feed,
\* vertical tab, form feed, carriage return, U+001C to U+001F, space, U+0085
\* and U+00A0 (the six without an escape are written as themselves).  \s
\* also matches U+1680, U+2000 to U+200A, U+2028, U+2029, U+202F, U+205F
\* and U+3000, which no string of this module can hold.
Whitespace ==
    { "\t", "\n", "", "\f", "\r", "", "", "", "", " ",
      "", " " }

StartsWith(s, i, t) ==
    /\ i + Len(t) - 1 <= Len(s)
    /\ Ch(s, i) = Ch(t, 1)
    /\ SubSeq(s, i, i + Len(t) - 1) = t

Least(S) == CHOOSE x \in S : \A y \in S : x <= y

Greatest(S) == CHOOSE x \in S : \A y \in S : x >= y

\* The least index >= i at which t occurs in s, 0 when there is none.
IndexOf(s, t, i) ==
    LET at == {j \in i..Len(s) : StartsWith(s, j, t)}
    IN  IF at = {} THEN 0 ELSE Least(at)

Contains(s, t) == IndexOf(s, t, 1) # 0

-----------------------------------------------------------------------------
(* Regular expressions as data *)

Lit(t) == [kind |-> "lit", text |-> t, neg |-> FALSE, cls |-> {}, cap |-> 0, inner |-> <<>>]

\* One or more characters of cls (neg = FALSE) or outside cls (neg = TRUE),
\* greedy; captured as group cap when cap > 0.
Plus(neg, cls, cap) == [kind |-> "plus", text |-> "", neg |-> neg, cls |-> cls, cap |-> cap, inner |-> <<>>]

\* (?:inner)?  greedy
Opt(inner) == [kind |-> "opt", text |-> "", neg |-> FALSE, cls |-> {}, cap |-> 0, inner |-> inner]

InClass(e, c) == IF e.neg THEN c \notin e.cls ELSE c \in e.cls

NoGroups == <<"", "", "", "">>

NoMatch == [ok |-> FALSE, end |-> 0, groups |-> NoGroups]

\* Number of consecutive characters of s from index i that element e accepts.
RunLen(s, i, e) ==
    IF i > Len(s) \/ ~InClass(e, Ch(s, i)) THEN 0
    ELSE LET stops == {j \in i..Len(s) : ~InClass(e, Ch(s, j))}
         IN  (IF stops = {} THEN Len(s) + 1 ELSE Least(stops)) - i

\* Match pattern p against s at index i: the first success in the order a
\* backtracking engine tries (greedy repetition longest first, an optional
\* group taken before it is skipped).  end is the index after the match.
RECURSIVE Match(_, _, _, _)
Match(p, s, i, groups) ==
    IF Len(p) = 0 THEN [ok |-> TRUE, end |-> i, groups |-> groups]
    ELSE LET e == Head(p)
             rest == Tail(p)
         IN  CASE e.kind = "lit" ->
                    IF StartsWith(s, i, e.text)
                    THEN Match(rest, s, i + Len(e.text), groups)
                    ELSE NoMatch
               [] e.kind = "plus" ->
                    LET Taking(n) == Match(rest, s, i + n,
                                          IF e.cap > 0
                                          THEN [groups EXCEPT ![e.cap] = SubSeq(s, i, i + n - 1)]
                                          ELSE groups)
                        lens == {n \in 1..RunLen(s, i, e) : Taking(n).ok}
                    IN  IF lens = {} THEN NoMatch ELSE Taking(Greatest(lens))
               [] e.kind = "opt" ->
                    LET taken == Match(e.inner \o rest, s, i, groups)
                    IN  IF taken.ok THEN taken ELSE Match(rest, s, i, groups)

MatchAt(p, s, i) == Match(p, s, i, NoGroups)

\* The least index >= pos at which p matches, 0 when there is none.
NextMatch(p, s, pos) ==
    LET at == {i \in pos..Len(s) : MatchAt(p, s, i).ok}
    IN  IF at = {} THEN 0 ELSE Least(at)

HasMatch(p, s) == NextMatch(p, s, 1) # 0

-----------------------------------------------------------------------------
(* Replacement templates as data *)

Txt(t) == [kind |-> "txt", text |-> t, n |-> 0]

\* \n in a template: the text of group n, empty when the group did not match
Grp(n) == [kind |-> "grp", text |-> "", n |-> n]

RECURSIVE Expand(_, _)
Expand(tpl, groups) ==
    IF Len(tpl) = 0 THEN ""
    ELSE LET e == Head(tpl)
         IN  (IF e.kind = "txt" THEN e.text ELSE groups[e.n])
             \o Expand(Tail(tpl), groups)

\* Sub with the text after the last match forgotten.
RECURSIVE Sub_DropsTail(_, _, _, _)
Sub_DropsTail(p, tpl, s, pos) ==
    LET i == NextMatch(p, s, pos)
    IN  IF i = 0 THEN ""
        ELSE LET m == MatchAt(p, s, i)
             IN  SubSeq(s, pos, i - 1) \o Expand(tpl, m.groups)
                 \o Sub_DropsTail(p, tpl, s, m.end)

\* re.sub(p, tpl, s): every leftmost non-overlapping match of p, scanning
\* from index pos, replaced by the expansion of tpl; the rest copied.
RECURSIVE Sub(_, _, _, _)
Sub(p, tpl, s, pos) ==
    LET i == NextMatch(p, s, pos)
    IN  IF i = 0 THEN SubSeq(s, pos, Len(s))
        ELSE LET m == MatchAt(p, s, i)
             IN  SubSeq(s, pos, i - 1) \o Expand(tpl, m.groups)
                 \o Sub(p, tpl, s, m.end)

-----------------------------------------------------------------------------
(* The three rules *)

\* Pattern 1 with \s* for \s+.
Pattern1_OptionalWhitespace ==
    << Opt(<< Plus(FALSE, Whitespace, 0) >>),
       Lit("return mockrec.RecordCall(mr.mock.ctrl, mr.mock,\nmockrec.RecordCall(mr.mock.ctrl, mr.mock, \""),
       Plus(TRUE, {"\""}, 1),
       Lit("\", reflect.TypeOf((*"),
       Plus(TRUE, {")"}, 2),
       Lit(")(nil)."),
       Plus(TRUE, {")"}, 3),
       Lit(")"),
       Opt(<< Lit(", "), Plus(TRUE, {")"}, 4) >>),
       Lit(")") >>

\* Pattern 1 with [ \t]+ for \s+: line breaks are not part of the run.
Pattern1_SpacesAndTabs ==
    << Plus(FALSE, {" ", "\t"}, 0),
       Lit("return mockrec.RecordCall(mr.mock.ctrl, mr.mock,\nmockrec.RecordCall(mr.mock.ctrl, mr.mock, \""),
       Plus(TRUE, {"\""}, 1),
       Lit("\", reflect.TypeOf((*"),
       Plus(TRUE, {")"}, 2),
       Lit(")(nil)."),
       Plus(TRUE, {")"}, 3),
       Lit(")"),
       Opt(<< Lit(", "), Plus(TRUE, {")"}, 4) >>),
       Lit(")") >>

Pattern1 ==
    << Plus(FALSE, Whitespace, 0),
       Lit("return mockrec.RecordCall(mr.mock.ctrl, mr.mock,\nmockrec.RecordCall(mr.mock.ctrl, mr.mock, \""),
       Plus(TRUE, {"\""}, 1),
       Lit("\", reflect.TypeOf((*"),
       Plus(TRUE, {")"}, 2),
       Lit(")(nil)."),
       Plus(TRUE, {")"}, 3),
       Lit(")"),
       Opt(<< Lit(", "), Plus(TRUE, {")"}, 4) >>),
       Lit(")") >>

Template1 ==
    << Txt("\treturn mockrec.RecordCall(mr.mock.ctrl, mr.mock, \""), Grp(1),
       Txt("\", reflect.TypeOf((*"), Grp(2),
       Txt(")(nil)."), Grp(3),
       Txt(")"), Grp(4),
       Txt(")") >>

Pattern2 ==
    << Lit("\treturn mockrec.RecordCall(mr.mock.ctrl, mr.mock, \""),
       Plus(TRUE, {"\""}, 1),
       Lit("\", reflect.TypeOf((*"),
       Plus(TRUE, {")"}, 2),
       Lit(")(nil)."),
       Plus(TRUE, {")"}, 3),
       Lit("), "),
       Plus(TRUE, {")"}, 4),
       Lit(")") >>

\* Template 2 without the separator before group 4.
Template2_NoSeparator ==
    << Txt("\treturn mockrec.RecordCall(mr.mock.ctrl, mr.mock, \""), Grp(1),
       Txt("\", reflect.TypeOf((*"), Grp(2),
       Txt(")(nil)."), Grp(3),
       Txt(")"), Grp(4),
       Txt(")") >>

Template2 ==
    << Txt("\treturn mockrec.RecordCall(mr.mock.ctrl, mr.mock, \""), Grp(1),
       Txt("\", reflect.TypeOf((*"), Grp(2),
       Txt(")(nil)."), Grp(3),
       Txt("), "), Grp(4),
       Txt(")") >>

Pattern3 ==
    << Lit("\treturn mockrec.RecordCall(mr.mock.ctrl, mr.mock, \""),
       Plus(TRUE, {"\""}, 1),
       Lit("\", reflect.TypeOf((*"),
       Plus(TRUE, {")"}, 2),
       Lit(")(nil)."),
       Plus(TRUE, {")"}, 3),
       Lit("))") >>

\* Template 3 with the call target left as it was.
Template3_RecordCall ==
    << Txt("\treturn mockrec.RecordCall(mr.mock.ctrl, mr.mock, \""), Grp(1),
       Txt("\", reflect.TypeOf((*"), Grp(2),
       Txt(")(nil)."), Grp(3),
       Txt("))") >>

Template3 ==
    << Txt("\treturn mockrec.RecordNoArgsCall(mr.mock.ctrl, mr.mock, \""), Grp(1),
       Txt("\", reflect.TypeOf((*"), Grp(2),
       Txt(")(nil)."), Grp(3),
       Txt("))") >>

Rule1(s) == Sub(Pattern1, Template1, s, 1)

Rule2(s) == Sub(Pattern2, Template2, s, 1)

Rule3(s) == Sub(Pattern3, Template3, s, 1)

-----------------------------------------------------------------------------
(* Text-mode file I/O *)

\* open(..., 'r') reads with universal newlines: "\r\n" and "\r" become "\n".
RECURSIVE UniversalNewlines(_, _)
UniversalNewlines(s, pos) ==
    LET i == IndexOf(s, "\r", pos)
    IN  IF i = 0 THEN SubSeq(s, pos, Len(s))
        ELSE SubSeq(s, pos, i - 1) \o "\n"
             \o UniversalNewlines(s, IF StartsWith(s, i + 1, "\n") THEN i + 2 ELSE i + 1)

\* os.linesep of the platform the script runs on (POSIX).
LineSep == "\n"

\* open(..., 'w') writes each "\n" as os.linesep.
RECURSIVE TranslateNewlines(_, _)
TranslateNewlines(s, pos) ==
    LET i == IndexOf(s, "\n", pos)
    IN  IF i = 0 THEN SubSeq(s, pos, Len(s))
        ELSE SubSeq(s, pos, i - 1) \o LineSep \o TranslateNewlines(s, i + 1)

\* What a failing f.write / close may leave in the truncated file: the
\* part of the text that reached the file before the error, any prefix of
\* it (all of it when the error comes after the last byte).
PartialWrites(s) == {SubSeq(s, 1, k) : k \in 0..Len(s)}

-----------------------------------------------------------------------------
(* Input documents: up to MaxPieces pieces, concatenated *)

Outer == "return mockrec.RecordCall(mr.mock.ctrl, mr.mock,\n"

Call(N, T, M) ==
    "mockrec.RecordCall(mr.mock.ctrl, mr.mock, \"" \o N
    \o "\", reflect.TypeOf((*" \o T \o ")(nil)." \o M \o ")"

NoArgsCall(N, T, M) ==
    "mockrec.RecordNoArgsCall(mr.mock.ctrl, mr.mock, \"" \o N
    \o "\", reflect.TypeOf((*" \o T \o ")(nil)." \o M \o ")"

\* the duplicated construct, without and with a trailing argument
Dup(N, T, M) == Outer \o Call(N, T, M) \o ")"

DupArg(N, T, M, A) == Outer \o Call(N, T, M) \o ", " \o A \o ")"

\* the well-formed statement, without and with a trailing argument
Stmt(N, T, M) == "return " \o Call(N, T, M) \o ")"

StmtArg(N, T, M, A) == "return " \o Call(N, T, M) \o ", " \o A \o ")"

\* the duplicated construct as a method body: on a line of its own,
\* indented by a tab, followed by the closing brace
Block(N, T, M) == "\n\t" \o Dup(N, T, M) \o "\n}\n"

\* a statement cut off inside its type reference, and a tab
Truncated == "\treturn mockrec.RecordCall(mr.mock.ctrl, mr.mock, \"X\", reflect.TypeOf((*G\t"

Pieces ==
    { "\t", "\n", "\r", "", " ", "\n\t", "}\n",
      Dup("Foo", "Bar", "Foo"),
      Block("Foo", "Bar", "Foo"),
      DupArg("Foo", "Bar", "Foo", "arg0"),
      Stmt("Baz", "Qux", "Baz"),
      StmtArg("Baz", "Qux", "Baz", "arg0"),
      Truncated }

RECURSIVE Docs(_)
Docs(n) ==
    IF n = 0 THEN {""}
    ELSE LET shorter == Docs(n - 1)
         IN  shorter \cup {d \o p : d \in shorter, p \in Pieces}

-----------------------------------------------------------------------------
(* The script *)

Init ==
    /\ stored \in BOOLEAN
    /\ exists \in BOOLEAN
    /\ disk \in (IF exists THEN Docs(MaxPieces) ELSE {""})
    /\ pc = "start"
    /\ content = ""
    /\ hist = <<>>
    /\ orig = disk
    /\ wlog = <<>>
    /\ reads = 0
    /\ run = 1
    /\ prev = ""

\* line 22: compiling the stored file raises SyntaxError; no statement of
\* the file is executed and the interpreter exits with status 1
SyntaxError ==
    /\ pc = "start"
    /\ stored
    /\ pc' = "failed"
    /\ UNCHANGED <<stored, exists, disk, content, hist, orig, wlog, reads, run, prev>>

\* lines 4-5: with open(path, 'r') as f: content = f.read()
ReadFile ==
    /\ pc = "start"
    /\ ~stored
    /\ exists
    /\ content' = UniversalNewlines(disk, 1)
    /\ hist' = <<content'>>
    /\ reads' = reads + 1
    /\ pc' = "read"
    /\ UNCHANGED <<stored, exists, disk, orig, wlog, run, prev>>

\* line 4 raising OSError: the file is missing or cannot be opened
OpenReadFail ==
    /\ pc = "start"
    /\ ~stored
    /\ pc' = "failed"
    /\ UNCHANGED <<stored, exists, disk, content, hist, orig, wlog, reads, run, prev>>

\* line 5 raising (OSError, UnicodeDecodeError): f.read is called and fails,
\* content stays unbound
ReadFail ==
    /\ pc = "start"
    /\ ~stored
    /\ exists
    /\ reads' = reads + 1
    /\ pc' = "failed"
    /\ UNCHANGED <<stored, exists, disk, content, hist, orig, wlog, run, prev>>

\* line 9
ApplyRule1 ==
    /\ pc = "read"
    /\ content' = Rule1(content)
    /\ hist' = Append(hist, content')
    /\ pc' = "rule1"
    /\ UNCHANGED <<stored, exists, disk, orig, wlog, reads, run, prev>>

\* Rule 2 applied to the content as read instead of to the output of rule 1.
ApplyRule2_OnReadContent ==
    /\ pc = "rule1"
    /\ content' = Rule2(hist[1])
    /\ hist' = Append(hist, content')
    /\ pc' = "rule2"
    /\ UNCHANGED <<stored, exists, disk, orig, wlog, reads, run, prev>>

\* line 12
ApplyRule2 ==
    /\ pc = "rule1"
    /\ content' = Rule2(content)
    /\ hist' = Append(hist, content')
    /\ pc' = "rule2"
    /\ UNCHANGED <<stored, exists, disk, orig, wlog, reads, run, prev>>

\* line 15
ApplyRule3 ==
    /\ pc = "rule2"
    /\ content' = Rule3(content)
    /\ hist' = Append(hist, content')
    /\ pc' = "rule3"
    /\ UNCHANGED <<stored, exists, disk, orig, wlog, reads, run, prev>>

\* line 18: open(path, 'w') truncates the file
OpenWrite ==
    /\ pc = "rule3"
    /\ disk' = ""
    /\ pc' = "open"
    /\ UNCHANGED <<stored, exists, content, hist, orig, wlog, reads, run, prev>>

\* line 18 raising OSError: the file cannot be opened for writing
OpenWriteFail ==
    /\ pc = "rule3"
    /\ pc' = "failed"
    /\ UNCHANGED <<stored, exists, disk, content, hist, orig, wlog, reads, run, prev>>

\* lines 18-19: f.write(content), flushed when the with block closes f
WriteFile ==
    /\ pc = "open"
    /\ wlog' = Append(wlog, content)
    /\ disk' = TranslateNewlines(content, 1)
    /\ pc' = "written"
    /\ UNCHANGED <<stored, exists, content, hist, orig, reads, run, prev>>

\* lines 18-19 raising OSError while the text is written or flushed
WriteFail ==
    /\ pc = "open"
    /\ wlog' = Append(wlog, content)
    /\ disk' \in PartialWrites(TranslateNewlines(content, 1))
    /\ pc' = "failed"
    /\ UNCHANGED <<stored, exists, content, hist, orig, reads, run, prev>>

\* line 21: the text is printed, or stdout is closed and print does nothing
PrintDone ==
    /\ pc = "written"
    /\ pc' = "done"
    /\ UNCHANGED <<stored, exists, disk, content, hist, orig, wlog, reads, run, prev>>

\* line 21 raising OSError: stdout cannot take the text (a full device, a
\* closed pipe); the run ends with status 1 after the file was rewritten
PrintFail ==
    /\ pc = "written"
    /\ pc' = "failed"
    /\ UNCHANGED <<stored, exists, disk, content, hist, orig, wlog, reads, run, prev>>

\* the script is run again on the file it repaired
Rerun ==
    /\ pc = "done"
    /\ run < MaxRuns
    /\ run' = run + 1
    /\ prev' = disk
    /\ orig' = disk
    /\ pc' = "start"
    /\ content' = ""
    /\ hist' = <<>>
    /\ wlog' = <<>>
    /\ reads' = 0
    /\ UNCHANGED <<stored, exists, disk>>

Next ==
    \/ SyntaxError
    \/ ReadFile
    \/ OpenReadFail
    \/ ReadFail
    \/ ApplyRule1
    \/ ApplyRule2
    \/ ApplyRule3
    \/ OpenWrite
    \/ OpenWriteFail
    \/ WriteFile
    \/ WriteFail
    \/ PrintDone
    \/ PrintFail
    \/ Rerun

Spec == Init /\ [][Next]_vars

-----------------------------------------------------------------------------
(* Vocabulary of the properties *)

\* The content read by this run and the content after rules 1, 2 and 3.
Read0 == hist[1]

After1 == hist[2]

After2 == hist[3]

After3 == hist[4]

\* (name, type, method) of the calls the documents are built from
CallParams == {<<"Foo", "Bar", "Foo">>, <<"Baz", "Qux", "Baz">>}

Args == {"arg0"}

\* s is one or more whitespace characters followed by exactly t
WhitespaceThen(s, t) ==
    /\ Len(s) > Len(t)
    /\ SubSeq(s, Len(s) - Len(t) + 1, Len(s)) = t
    /\ \A j \in 1..(Len(s) - Len(t)) : Ch(s, j) \in Whitespace

Count(s, c) == Cardinality({j \in 1..Len(s) : Ch(s, j) = c})

\* The start indices of the matches re.sub replaces, leftmost first.
RECURSIVE Selected(_, _, _)
Selected(p, s, pos) ==
    LET i == NextMatch(p, s, pos)
    IN  IF i = 0 THEN <<>> ELSE <<i>> \o Selected(p, s, MatchAt(p, s, i).end)

\* s with every selected match of pattern 1 cut down to: a tab, "return ",
\* and the text of the inner call as it stands in s (its name, type and
\* method, then the trailing argument directly after the TypeOf expression).
RECURSIVE Collapsed(_, _)
Collapsed(s, pos) ==
    LET i == NextMatch(Pattern1, s, pos)
    IN  IF i = 0 THEN SubSeq(s, pos, Len(s))
        ELSE LET m == MatchAt(Pattern1, s, i)
                 inner == i + RunLen(s, i, Head(Pattern1)) + Len(Outer)
                 a == Len(m.groups[4])
             IN  SubSeq(s, pos, i - 1) \o "\treturn "
                 \o (IF a = 0 THEN SubSeq(s, inner, m.end - 1)
                     ELSE SubSeq(s, inner, m.end - 4 - a)
                          \o SubSeq(s, m.end - 1 - a, m.end - 1))
                 \o Collapsed(s, m.end)

-----------------------------------------------------------------------------
(* Properties *)

\* C1: when the content read contains the duplicated construct with a
\* trailing argument A (whitespace, the truncated outer call, a line break,
\* the inner call with A), the file written holds the canonical single call
\* with A as a separate, comma-separated argument, and the duplicated
\* construct is gone.
C1_DupWithArgBecomesCanonical ==
    pc = "done" =>
        \A c \in CallParams, A \in Args :
            (\E w \in Whitespace : Contains(Read0, w \o DupArg(c[1], c[2], c[3], A)))
            => /\ Contains(disk, StmtArg(c[1], c[2], c[3], A))
               /\ ~Contains(disk, DupArg(c[1], c[2], c[3], A))

\* C2: when the content read contains a tab-indented call statement without
\* trailing arguments, the file written holds that statement with the call
\* target RecordNoArgsCall and no longer holds it with RecordCall.
C2_NoArgStatementUsesNoArgsCall ==
    pc = "done" =>
        \A c \in CallParams :
            Contains(Read0, "\t" \o Stmt(c[1], c[2], c[3]))
            => /\ Contains(disk, "\treturn " \o NoArgsCall(c[1], c[2], c[3]) \o ")")
               /\ ~Contains(disk, "\t" \o Stmt(c[1], c[2], c[3]))

\* C3 as stated: a document that is the duplicated construct without a
\* trailing argument (with or without whitespace before it) comes out as
\* the single statement whose call target is RecordCall.
C3_DupNoArgBecomesRecordCall ==
    (pc = "done" /\ \/ Read0 = Dup("Foo", "Bar", "Foo")
                    \/ WhitespaceThen(Read0, Dup("Foo", "Bar", "Foo")))
    => disk \in {Stmt("Foo", "Bar", "Foo"), "\t" \o Stmt("Foo", "Bar", "Foo")}

\* C3 amended: a document that is whitespace followed by the duplicated
\* construct without a trailing argument comes out as a tab and the single
\* statement whose call target is RecordNoArgsCall; without whitespace
\* before its return the document comes out unchanged.
C3_DupNoArgBecomesNoArgsCall ==
    pc = "done" =>
        /\ WhitespaceThen(Read0, Dup("Foo", "Bar", "Foo"))
           => disk = "\treturn " \o NoArgsCall("Foo", "Bar", "Foo") \o ")"
        /\ Read0 = Dup("Foo", "Bar", "Foo") => disk = Read0

C3_Witness ==
    /\ pc = "done"
    /\ Read0 = "" \o Dup("Foo", "Bar", "Foo")
    /\ disk = "\treturn " \o NoArgsCall("Foo", "Bar", "Foo") \o ")"

\* C4: a second run of the script on the file the first run wrote leaves
\* the file as the first run wrote it.
C4_SecondRunChangesNothing ==
    (run >= 2 /\ pc = "done") => disk = prev

\* C5: when none of the three patterns occurs in the content read, the
\* content written is the content read (either it is, or one of the patterns
\* occurs); a rule whose pattern does not occur in its input returns it
\* unchanged; a run fails before the content is read (the stored file does
\* not compile, the open or the read fails) or after rule 3 (the open for
\* writing, the write or the print fails), never in a rule.
C5_IdentityWhenNothingMatches ==
    /\ pc \in {"written", "done"} =>
          \/ (wlog = <<Read0>> /\ disk = Read0)
          \/ HasMatch(Pattern1, Read0)
          \/ HasMatch(Pattern2, Read0)
          \/ HasMatch(Pattern3, Read0)
    /\ pc = "rule1" => (After1 = Read0 \/ HasMatch(Pattern1, Read0))
    /\ pc = "rule2" => (After2 = After1 \/ HasMatch(Pattern2, After1))
    /\ pc = "rule3" => (After3 = After2 \/ HasMatch(Pattern3, After2))
    /\ pc = "failed" => Len(hist) \in {0, 4}

C5_Witness ==
    /\ pc = "done"
    /\ Contains(Read0, Outer)
    /\ ~HasMatch(Pattern1, Read0)
    /\ ~HasMatch(Pattern2, Read0)
    /\ ~HasMatch(Pattern3, Read0)
    /\ disk = Read0

\* C6: a run that fails on I/O leaves the file on disk as it was before the
\* run.
C6_FailedRunLeavesFileUntouched ==
    pc = "failed" => disk = orig

\* C7: the file is read once, before any rule; it is written at most once,
\* after rules 1, 2, 3 were applied in that order, each to the output of
\* the one before; what is written is rule3(rule2(rule1(content read)));
\* the file does not change before the write stage.
C7_ReadOnceWriteOnceAfterAllRules ==
    /\ reads <= 1
    /\ Len(wlog) <= 1
    /\ Len(hist) >= 1 => reads = 1
    /\ pc \in {"read", "rule1", "rule2", "rule3"} => (disk = orig /\ wlog = <<>>)
    /\ Len(wlog) = 1 =>
          /\ Len(hist) = 4
          /\ wlog[1] = After3
    /\ pc = "rule3" => After3 = Rule3(Rule2(Rule1(Read0)))
    /\ pc \in {"written", "done"} =>
          /\ Len(wlog) = 1
          /\ disk = After3

C7_Witness ==
    /\ pc = "done"
    /\ After1 # Read0
    /\ After3 # After1
    /\ wlog = <<After3>>
    /\ disk = After3

\* C8: rule 2 returns its input unchanged, on the output of rule 1 and on
\* the content read.
C8_Rule2ChangesNothing ==
    /\ Len(hist) >= 3 => After2 = After1
    /\ pc = "read" => Rule2(Read0) = Read0

C8_Witness ==
    /\ pc = "rule2"
    /\ HasMatch(Pattern2, After1)
    /\ After2 = After1

\* C9: for the document that is whitespace followed by the duplicated
\* construct without a trailing argument, applying rule 3 before rule 1
\* gives another output than the order 1, 2, 3: rule 3 finds nothing in the
\* content read but matches the statement rule 1 produces.
C9_OrderMatters ==
    (pc = "done" /\ \E c \in CallParams : WhitespaceThen(Read0, Dup(c[1], c[2], c[3])))
    => /\ Rule2(Rule1(Rule3(Read0))) # After3
       /\ Rule1(Rule2(Rule3(Read0))) # After3
       /\ ~HasMatch(Pattern3, Read0)
       /\ HasMatch(Pattern3, After1)

C9_Witness ==
    /\ pc = "done"
    /\ Read0 = "\t" \o Dup("Foo", "Bar", "Foo")
    /\ After3 = "\treturn " \o NoArgsCall("Foo", "Bar", "Foo") \o ")"
    /\ Rule2(Rule1(Rule3(Read0))) = "\t" \o Stmt("Foo", "Bar", "Foo")

\* C10: every match rule 1 replaces starts where a run of whitespace
\* starts and takes the whole run up to its return; the output is the input
\* with each such match cut down to a tab, the return and the inner call,
\* all other text as it was; each match removes the line breaks of its
\* whitespace run and the one inside the construct.
C10_Rule1ConsumesWhitespaceRun ==
    pc = "rule1" =>
        LET starts == Selected(Pattern1, Read0, 1)
            Run(k) == RunLen(Read0, starts[k], Head(Pattern1))
            Breaks(k) == Count(SubSeq(Read0, starts[k], starts[k] + Run(k) - 1), "\n")
            RECURSIVE Removed(_)
            Removed(k) == IF k = 0 THEN 0 ELSE Removed(k - 1) + Breaks(k) + 1
        IN  IF Len(starts) = 0 THEN After1 = Read0
            ELSE /\ \A k \in 1..Len(starts) :
                       /\ starts[k] = 1 \/ Ch(Read0, starts[k] - 1) \notin Whitespace
                       /\ StartsWith(Read0, starts[k] + Run(k), Outer)
                 /\ After1 = Collapsed(Read0, 1)
                 /\ Count(After1, "\n") = Count(Read0, "\n") - Removed(Len(starts))

C10_Witness ==
    /\ pc = "rule1"
    /\ Read0 = Block("Foo", "Bar", "Foo") \o Block("Foo", "Bar", "Foo")
    /\ Selected(Pattern1, Read0, 1) = <<1, Len(Block("Foo", "Bar", "Foo"))>>
    /\ RunLen(Read0, 1, Head(Pattern1)) = 2
    /\ RunLen(Read0, Len(Block("Foo", "Bar", "Foo")), Head(Pattern1)) = 3
    /\ After1 = "\t" \o Stmt("Foo", "Bar", "Foo") \o "\n}"
                 \o "\t" \o Stmt("Foo", "Bar", "Foo") \o "\n}\n"
    /\ Count(Read0, "\n") = 8
    /\ Count(After1, "\n") = 3

====
